---------------------------- MODULE Spec2Model ----------------------------
(***************************************************************************)
(* Model of the parsing core of mjarkk/general_programming_language:       *)
(*   src/src/lib/parser.rs  Parser (cursor, try_match, custom_error,       *)
(*                          parse_nothing)                                 *)
(*   src/src/lib/action.rs  ParseAction (detect, parse_function,           *)
(*                          parse_var_assignment, parse_looper,            *)
(*                          parse_return)                                  *)
(* A character is a one-character string, a buffer or a name a sequence of *)
(* characters.  The cursor is the pair (contents, index); index counts the *)
(* bytes already consumed, so the next byte is contents[index + 1].        *)
(***************************************************************************)
EXTENDS Integers, Sequences, FiniteSets, TLC

VARIABLES
  contents,          \* Parser.contents
  index,             \* Parser.index
  pc,                \* position of the entry point being run
  start,             \* index when the entry point was called
  options,           \* the table handed to try_match
  matched,           \* what try_match returned
  action_to_expect,  \* ParseAction.action_to_expect of the outermost call
  res,               \* the Result of the outermost parse
  use_index,         \* custom_error's file_char_number
  diag,              \* the ParsingError custom_error built
  functions          \* Parser.functions (its length)

vars == <<contents, index, pc, start, options, matched, action_to_expect,
          res, use_index, diag, functions>>

(***************************************************************************)
(* Bounds of the model.                                                    *)
(***************************************************************************)
MaxMatchLen == 4     \* longest buffer handed to try_match
MaxOptions == 2      \* longest candidate table handed to try_match
MaxErrLen == 4       \* longest buffer handed to custom_error
MaxGap == 2          \* longest run of blanks put between two tokens

(***************************************************************************)
(* Option<&str>, Option<Vec<u8>>                                          *)
(***************************************************************************)
NoMatch == <<>>

NoLine == [some |-> FALSE, val |-> <<>>]

SomeLine(l) == [some |-> TRUE, val |-> l]

Range(s) == {s[i] : i \in 1..Len(s)}

SeqsUpTo(S, n) == UNION {[1..k -> S] : k \in 0..n}

(***************************************************************************)
(* The cursor.  Each operator returns the character read (if any) and the  *)
(* index it leaves.                                                        *)
(***************************************************************************)
next_char(i) ==
  IF i < Len(contents)
    THEN [some |-> TRUE, c |-> contents[i + 1], index |-> i + 1]
    ELSE [some |-> FALSE, c |-> "", index |-> i]

seek_next_char_consuming(i) == next_char(i)

seek_next_char(i) ==
  IF i < Len(contents)
    THEN [some |-> TRUE, c |-> contents[i + 1], index |-> i]
    ELSE [some |-> FALSE, c |-> "", index |-> i]

RECURSIVE next_while(_, _)
next_while(i, chars) ==
  LET n == next_char(i) IN
  IF ~n.some THEN n
  ELSE IF n.c \notin chars THEN n
  ELSE next_while(n.index, chars)

Blank == {" ", "\t", "\n"}

(***************************************************************************)
(* Parser::try_match                                                       *)
(***************************************************************************)
Opt(kw, surfix) == [kw |-> kw, surfix |-> surfix]

\* options_vec: the candidates of non-zero length, in table order
options_vec_of(opts) ==
  LET kept == SelectSeq(opts, LAMBDA o : Len(o.kw) > 0)
  IN [k \in 1..Len(kept) |-> kept[k].kw]

\* surfix_map.get(option): the HashMap keeps the last non-empty suffix
\* inserted under the key
surfix_map_has(opts, kw) ==
  \E k \in 1..Len(opts) : opts[k].kw = kw /\ Len(opts[k].kw) > 0 /\ Len(opts[k].surfix) > 0

surfix_map_get(opts, kw) ==
  LET ks == {k \in 1..Len(opts) : opts[k].kw = kw /\ Len(opts[k].surfix) > 0}
      last == CHOOSE k \in ks : \A j \in ks : j <= k
  IN Range(opts[last].surfix)

\* the suffix test of a completed candidate against the unconsumed next
\* character; seek_next_char takes &mut self, so the index is threaded
surfix_check(opts, option, i) ==
  IF surfix_map_has(opts, option)
    THEN LET nx == seek_next_char(i)
         IN [ok |-> nx.some /\ nx.c \in surfix_map_get(opts, option), index |-> nx.index]
    ELSE [ok |-> TRUE, index |-> i]

\* the body of `for option in options_vec`: either returns a candidate or
\* leaves new_options_vec
RECURSIVE try_match_for(_, _, _, _, _, _, _)
try_match_for(opts, vec, k, c, char_count, i, new_options_vec) ==
  IF k > Len(vec)
    THEN [ret |-> NoMatch, new_options_vec |-> new_options_vec, index |-> i]
  ELSE LET option == vec[k] IN
    IF Len(option) <= char_count
      THEN try_match_for(opts, vec, k + 1, c, char_count, i, new_options_vec)
    ELSE IF option[char_count + 1] = c
      THEN IF Len(option) # char_count + 1
             THEN try_match_for(opts, vec, k + 1, c, char_count, i,
                                Append(new_options_vec, option))
           ELSE LET s == surfix_check(opts, option, i) IN
             IF s.ok
               THEN [ret |-> option, new_options_vec |-> new_options_vec,
                     index |-> s.index]
               ELSE try_match_for(opts, vec, k + 1, c, char_count, s.index,
                                  new_options_vec)
    ELSE try_match_for(opts, vec, k + 1, c, char_count, i, new_options_vec)

\* "Reset the index if we havent found the requested item"
try_match_reset(i, char_count) == i - char_count

\* the `while let Some(c) = self.next_char()` loop
RECURSIVE try_match_while(_, _, _, _)
try_match_while(opts, vec, char_count, i) ==
  LET n == next_char(i) IN
  IF ~n.some
    THEN [matched |-> NoMatch, index |-> try_match_reset(n.index, char_count)]
  ELSE LET f == try_match_for(opts, vec, 1, n.c, char_count, n.index, <<>>) IN
    IF f.ret # NoMatch
      THEN [matched |-> f.ret, index |-> f.index]
    ELSE IF Len(f.new_options_vec) = 0
      THEN [matched |-> NoMatch, index |-> try_match_reset(f.index, char_count)]
    ELSE try_match_while(opts, f.new_options_vec, char_count + 1, f.index)

try_match(i, opts) ==
  IF Len(opts) = 0 THEN [matched |-> NoMatch, index |-> i]
  ELSE try_match_while(opts, options_vec_of(opts), 0, i)

(***************************************************************************)
(* Action, ActionToExpect, Result<_, ParsingError>                         *)
(***************************************************************************)
NoAction == [kind |-> "None"]

NOOP == [kind |-> "NOOP"]

VarRef(name) == [kind |-> "VarRef", name |-> name]

StaticString(text) == [kind |-> "StaticString", text |-> text]

StaticNumber(text) == [kind |-> "StaticNumber", text |-> text]

Variable(var_type, name, action) ==
  [kind |-> "Variable", var_type |-> var_type, name |-> name, action |-> action]

ActionAssigment(name, action) == [kind |-> "Assigment", name |-> name, action |-> action]

ActionFunctionCall(name, arguments) ==
  [kind |-> "FunctionCall", name |-> name, arguments |-> arguments]

ActionReturn(action) == [kind |-> "Return", action |-> action]

ActionFor(actions, list, item_name) ==
  [kind |-> "For", actions |-> actions, list |-> list, item_name |-> item_name]

ActionWhile(actions, true_value) ==
  [kind |-> "While", actions |-> actions, true_value |-> true_value]

ActionLoop(actions) == [kind |-> "Loop", actions |-> actions]

ActionBreak == [kind |-> "Break"]

ActionContinue == [kind |-> "Continue"]

ActionInBody == [kind |-> "ActionInBody", chars |-> {}]

Assignment(chars) == [kind |-> "Assignment", chars |-> chars]

Ok(i, v) == [ok |-> TRUE, index |-> i, err |-> "None", val |-> v]

Err(i, e) == [ok |-> FALSE, index |-> i, err |-> e, val |-> NoAction]

unexpected_char(i) == Err(i, "UnexpectedChar")

unexpected_eof(i) == Err(i, "UnexpectedEOF")

(***************************************************************************)
(* Collaborators of the action parser that action.rs uses and does not     *)
(* define: the keyword strings, the name builder, the literal parsers.     *)
(***************************************************************************)
Keywords_Const == <<"c", "o", "n", "s", "t">>

Keywords_Let == <<"l", "e", "t">>

Keywords_Return == <<"r", "e", "t", "u", "r", "n">>

Keywords_Loop == <<"l", "o", "o", "p">>

Keywords_While == <<"w", "h", "i", "l", "e">>

Keywords_For == <<"f", "o", "r">>

Keywords_Break == <<"b", "r", "e", "a", "k">>

Keywords_Continue == <<"c", "o", "n", "t", "i", "n", "u", "e">>

Letters ==
  {"a", "b", "c", "d", "e", "f", "g", "h", "i", "j", "k", "l", "m", "n", "o",
   "p", "q", "r", "s", "t", "u", "v", "w", "x", "y", "z"}

Digits == {"0", "1", "2", "3", "4", "5", "6", "7", "8", "9"}

legal_name_char(c) == c \in Letters \cup Digits \cup {"_"}

\* NameBuilder::is_number: the accumulated bytes form a numeric literal
NameBuilder_is_number(name) ==
  /\ Len(name) > 0
  /\ name[1] \in Digits
  /\ \A k \in 1..Len(name) : name[k] \in Digits \cup {"."}

\* NameBuilder::to_string: the bytes as a string, or a UTF-8 validation
\* error; every byte of the buffers modelled here is ASCII
NameBuilder_to_string(i, name) == Ok(i, name)

\* parse_static_str, entered after the opening quote was consumed: the
\* bytes up to the closing quote, a backslash taking the next byte as is
RECURSIVE parse_static_str_from(_, _)
parse_static_str_from(i, text) ==
  LET n == next_char(i) IN
  IF ~n.some THEN unexpected_eof(n.index)
  ELSE IF n.c = "\"" THEN Ok(n.index, StaticString(text))
  ELSE IF n.c = "\\"
    THEN LET e == next_char(n.index) IN
         IF ~e.some THEN unexpected_eof(e.index)
         ELSE parse_static_str_from(e.index, Append(text, e.c))
  ELSE parse_static_str_from(n.index, Append(text, n.c))

parse_static_str(i) == parse_static_str_from(i, <<>>)

(***************************************************************************)
(* Parser::expect (parser.rs keeps it commented out; parse_looper calls    *)
(* it)                                                                     *)
(***************************************************************************)
RECURSIVE expect(_, _)
expect(i, text) ==
  IF Len(text) = 0 THEN Ok(i, NoAction)
  ELSE LET n == next_char(i) IN
    IF ~n.some THEN unexpected_eof(n.index)
    ELSE IF n.c = text[1] THEN expect(n.index, Tail(text))
    ELSE unexpected_char(n.index)

(***************************************************************************)
(* ParseAction                                                             *)
(***************************************************************************)
RECURSIVE ParseAction_start(_, _, _)
RECURSIVE detect(_, _)
RECURSIVE ParseActions_start_from(_, _)

\* Rust's `?`: an Err is returned as it is, an Ok is handed on
Try(r, Then(_)) == IF r.ok THEN Then(r) ELSE r

\* ParseAction::commit_state: the ParseActionState frozen into self.res
commit_state(i, state) ==
  IF state.kind = "Return" THEN Ok(i, ActionReturn(state.action))
  ELSE IF state.kind = "Assigment"
    THEN IF state.action = NoAction
           THEN Err(i, "Custom(Missing variable assignment)")
           ELSE Ok(i, ActionAssigment(state.name, state.action))
  ELSE IF state.kind = "FunctionCall"
    THEN Ok(i, ActionFunctionCall(state.name, state.arguments))
  ELSE Ok(i, state)

\* `let to_commit = self.parse_..()?; self.commit_state(to_commit)?`
commit(to_commit) == Try(to_commit, LAMBDA t : commit_state(t.index, t.val))

\* The statement-sequence parser ParseActions::start, entered after the
\* opening brace: statements under ActionInBody until the closing brace
ParseActions_start_from(i, actions) ==
  LET n == next_while(i, Blank) IN
  IF ~n.some THEN unexpected_eof(n.index)
  ELSE IF n.c = "}" THEN Ok(n.index, actions)
  ELSE Try(ParseAction_start(n.index, TRUE, ActionInBody),
           LAMBDA a : ParseActions_start_from(a.index, Append(actions, a.val)))

ParseActions_start(i) == ParseActions_start_from(i, <<>>)

\* parse_function, after an argument: `match self.p.next_while(" \t\n")`
RECURSIVE parse_function_loop(_, _)
parse_function_next(action, arguments) ==
  LET m == next_while(action.index, Blank) IN
  IF m.some /\ m.c = ","
    THEN parse_function_loop(m.index, Append(arguments, action.val))
    ELSE Ok(m.index - 1, Append(arguments, action.val))

\* the argument loop of parse_function
parse_function_loop(i, arguments) ==
  LET n == next_while(i, Blank) IN
  IF ~n.some \/ n.c = ")" THEN Ok(n.index - 1, arguments)
  ELSE Try(ParseAction_start(n.index, TRUE, Assignment({",", ")"})),
           LAMBDA action : parse_function_next(action, arguments))

\* parse_function, after the loop: the closing `)`
parse_function_close(name, args) ==
  LET close == next_while(args.index, Blank) IN
  IF ~close.some THEN unexpected_eof(close.index)
  ELSE IF close.c = ")"
    THEN Ok(close.index, [kind |-> "FunctionCall", name |-> name, arguments |-> args.val])
  ELSE unexpected_char(close.index)

\* parse_function, `if check_for_function_open_sign`
parse_function_open(i, check_for_function_open_sign) ==
  IF check_for_function_open_sign
    THEN LET n == next_char(i) IN
         IF ~n.some THEN unexpected_eof(n.index)
         ELSE IF n.c = "(" THEN Ok(n.index, NoAction)
         ELSE unexpected_char(n.index)
    ELSE Ok(i, NoAction)

parse_function(i, name, check_for_function_open_sign) ==
  Try(parse_function_open(i, check_for_function_open_sign),
      LAMBDA open : Try(parse_function_loop(open.index, <<>>),
                        LAMBDA args : parse_function_close(name, args)))

\* parse_var_assignment, `if check_for_equal_sign`
parse_var_assignment_equal(i, check_for_equal_sign) ==
  IF check_for_equal_sign
    THEN LET n == next_while(i, Blank) IN
         IF ~n.some THEN unexpected_eof(n.index)
         ELSE IF n.c = "=" THEN Ok(n.index, NoAction)
         ELSE unexpected_char(n.index)
    ELSE Ok(i, NoAction)

\* parse_var_assignment, the right-hand side
parse_var_assignment_value(i, name) ==
  LET n == next_while(i, Blank) IN
  IF ~n.some THEN unexpected_eof(n.index)
  ELSE Try(ParseAction_start(n.index, TRUE, Assignment({})),
           LAMBDA action : Ok(action.index, [kind |-> "Assigment", name |-> name,
                                             action |-> action.val]))

parse_var_assignment(i, name, check_for_equal_sign) ==
  Try(parse_var_assignment_equal(i, check_for_equal_sign),
      LAMBDA eq : parse_var_assignment_value(eq.index, name))

\* the item-name loop of parse_looper's For arm
RECURSIVE for_item_name_loop(_, _)
for_item_name_loop(i, name) ==
  LET n == next_char(i) IN
  IF ~n.some THEN unexpected_eof(n.index)
  ELSE IF n.c \in Blank THEN Ok(n.index, name)
  ELSE IF legal_name_char(n.c) THEN for_item_name_loop(n.index, Append(name, n.c))
  ELSE unexpected_char(n.index)

\* the While arm of `let loop_based_on = match loop_type`
loop_based_on_While(i) ==
  Try(ParseAction_start(i, TRUE, Assignment({"{"})),
      LAMBDA a : Ok(a.index, [action |-> a.val, for_item_name |-> NoLine]))

\* the For arm, after `self.p.expect("in")?`
loop_based_on_For_list(i, for_item_name) ==
  LET n == next_while(i, Blank) IN
  IF ~n.some THEN unexpected_eof(n.index)
  ELSE Try(ParseAction_start(n.index, TRUE, Assignment({"{"})),
           LAMBDA a : Ok(a.index, [action |-> a.val,
                                   for_item_name |-> SomeLine(for_item_name)]))

\* the For arm
loop_based_on_For(i) ==
  Try(for_item_name_loop(i, <<>>),
      LAMBDA name : Try(NameBuilder_to_string(name.index, name.val),
        LAMBDA str : Try(expect(str.index, <<"i", "n">>),
          LAMBDA kw : loop_based_on_For_list(kw.index, str.val))))

loop_based_on_Loop_as_While(i) == loop_based_on_While(i)

\* the Loop arm
loop_based_on_Loop(i) == Ok(i - 1, [action |-> NOOP, for_item_name |-> NoLine])

\* parse_looper, `Ok(match loop_type {..})`
parse_looper_result(loop_type, loop_based_on, for_item_name, actions) ==
  IF loop_type = "For"
    THEN ActionFor(actions, loop_based_on,
                   IF for_item_name.some THEN for_item_name.val ELSE <<>>)
  ELSE IF loop_type = "While" THEN ActionWhile(actions, loop_based_on)
  ELSE ActionLoop(actions)

\* parse_looper, after the subject: the `{` and the body
parse_looper_body(loop_type, based) ==
  LET n1 == next_while(based.index, Blank) IN
  IF ~n1.some THEN unexpected_eof(n1.index)
  ELSE IF n1.c # "{" THEN unexpected_char(n1.index)
  ELSE Try(ParseActions_start(n1.index),
           LAMBDA actions :
             Ok(actions.index,
                parse_looper_result(loop_type, based.val.action,
                                    based.val.for_item_name, actions.val)))

parse_looper(i, loop_type) ==
  Try(IF loop_type = "While" THEN loop_based_on_While(next_while(i, Blank).index)
      ELSE IF loop_type = "For" THEN loop_based_on_For(next_while(i, Blank).index)
      ELSE loop_based_on_Loop(next_while(i, Blank).index),
      LAMBDA based : parse_looper_body(loop_type, based))

parse_return(i) ==
  LET n == next_while(i, Blank) IN
  IF ~n.some THEN unexpected_eof(n.index)
  ELSE IF n.c = "}" THEN Ok(n.index, [kind |-> "Return", action |-> NoAction])
  ELSE Try(ParseAction_start(n.index, TRUE, Assignment({"}"})),
           LAMBDA action : Ok(action.index, [kind |-> "Return", action |-> action.val]))

\* parse_var, the declaration grammar behind `const` and `let` (type
\* annotations left out): a name, then `=` and the initializer, which is
\* mandatory
RECURSIVE parse_var_name(_, _)
parse_var_name(i, name) ==
  LET n == next_char(i) IN
  IF ~n.some THEN Ok(n.index, name)
  ELSE IF n.c \in Blank
    THEN IF Len(name) = 0 THEN parse_var_name(n.index, name) ELSE Ok(n.index, name)
  ELSE IF n.c = "=" THEN Ok(n.index - 1, name)
  ELSE IF legal_name_char(n.c) THEN parse_var_name(n.index, Append(name, n.c))
  ELSE unexpected_char(n.index)

parse_var_missing(a) ==
  IF ~a.ok /\ a.err = "UnexpectedEOF"
    THEN Err(a.index, "Custom(Missing variable assignment)") ELSE a

parse_var(i, var_type) ==
  Try(parse_var_name(i, <<>>),
      LAMBDA name :
        Try(parse_var_missing(parse_var_assignment(name.index, name.val, TRUE)),
            LAMBDA a : Ok(a.index, Variable(var_type, name.val, a.val.action))))

\* the table detect hands to try_match
DetectOptions ==
  << Opt(Keywords_Const, <<" ", "\t", "\n">>),
     Opt(Keywords_Let, <<" ", "\t", "\n">>),
     Opt(Keywords_Return, <<"}", " ", "\t", "\n">>),
     Opt(Keywords_Loop, <<"{", " ", "\t", "\n">>),
     Opt(Keywords_While, <<" ", "\t", "\n">>),
     Opt(Keywords_For, <<"}", " ", "\t", "\n">>),
     Opt(Keywords_Break, <<"}", " ", "\t", "\n">>) >>

\* impl Into<LoopType> for Keywords
LoopType_of(kw) ==
  IF kw = Keywords_For THEN "For" ELSE IF kw = Keywords_While THEN "While" ELSE "Loop"

\* detect, "Try to match a keyword and react to it"
detect_keyword(i, kw) ==
  IF kw = Keywords_Const \/ kw = Keywords_Let
    THEN parse_var(i, IF kw = Keywords_Const THEN "Const" ELSE "Let")
  ELSE IF kw = Keywords_Return THEN commit(parse_return(i))
  ELSE IF kw = Keywords_Loop \/ kw = Keywords_While \/ kw = Keywords_For
    THEN commit(parse_looper(i, LoopType_of(kw)))
  ELSE IF kw = Keywords_Break THEN commit_state(i, ActionBreak)
  ELSE IF kw = Keywords_Continue THEN commit_state(i, ActionContinue)
  ELSE Err(i, "UnexpectedResult")

\* detect, the generic scan `while let Some(c) = self.p.next_char()`
Scanned(how, i, name, detected) ==
  [how |-> how, index |-> i, name |-> name, detected |-> detected]

RECURSIVE detect_scan(_, _, _, _)
detect_scan(i, ctx, name, name_completed) ==
  LET n == next_char(i) IN
  IF ~n.some THEN Scanned("scanned", n.index, name, "VarRefName")
  ELSE IF n.c = "\"" /\ Len(name) = 0 THEN Scanned("string", n.index, name, "VarRefName")
  ELSE IF n.c \in Blank
    THEN detect_scan(n.index, ctx, name, name_completed \/ Len(name) > 0)
  ELSE IF n.c = "(" THEN Scanned("scanned", n.index, name, "Function")
  ELSE IF n.c = "=" THEN Scanned("scanned", n.index, name, "Assignment")
  ELSE IF (legal_name_char(n.c) \/ n.c = ".") /\ ~name_completed
    THEN detect_scan(n.index, ctx, Append(name, n.c), name_completed)
  ELSE IF name_completed THEN Scanned("scanned", n.index - 1, name, "VarRefName")
  ELSE IF ctx.kind = "Assignment" /\ n.c \in ctx.chars
    THEN Scanned("scanned", n.index - 1, name, "VarRefName")
  ELSE Scanned("unexpected_char", n.index, name, "VarRefName")

\* the flag detect passes to parse_var_assignment
detect_check_for_equal_sign == TRUE

\* detect, "Do things relative to the detected action"
detect_action(i, detected_action, name_string) ==
  IF detected_action = "VarRefName" THEN commit_state(i, VarRef(name_string))
  ELSE IF detected_action = "Assignment"
    THEN commit(parse_var_assignment(i, name_string, detect_check_for_equal_sign))
  ELSE commit(parse_function(i, name_string, FALSE))

\* detect, after the scan
detect_scanned(sc) ==
  IF sc.how = "string" THEN parse_static_str(sc.index)
  ELSE IF sc.how = "unexpected_char" THEN unexpected_char(sc.index)
  ELSE IF NameBuilder_is_number(sc.name) THEN Ok(sc.index, StaticNumber(sc.name))
  ELSE Try(NameBuilder_to_string(sc.index, sc.name),
           LAMBDA name_string : detect_action(sc.index, sc.detected, name_string.val))

detect_generic(i, ctx) == detect_scanned(detect_scan(i, ctx, <<>>, FALSE))

\* detect, `let matched_res = if self.action_to_expect == ActionInBody ..`
detect_matched(m, ctx) ==
  IF m.matched # NoMatch
    THEN detect_keyword(m.index, m.matched)
    ELSE detect_generic(m.index, ctx)

detect(i, ctx) ==
  detect_matched(IF ctx.kind = "ActionInBody"
                   THEN try_match(i, DetectOptions)
                   ELSE [matched |-> NoMatch, index |-> i],
                 ctx)

\* ParseAction::start, `if let Some(res) = s.res`
ParseAction_start_res(r) ==
  IF r.val = NoAction THEN Err(r.index, "UnexpectedResult") ELSE r

ParseAction_start(i, go_back_one, ctx) ==
  Try(detect(IF go_back_one THEN i - 1 ELSE i, ctx), LAMBDA r : ParseAction_start_res(r))

(***************************************************************************)
(* Parser::custom_error                                                    *)
(***************************************************************************)
\* one iteration of the first loop, with the newline arm losing the
\* finished line
custom_error_step_keeps_prev(st, letter) ==
  IF letter = "\n"
    THEN [st EXCEPT !.current_line = <<>>,
                    !.line_number = @ + 1,
                    !.current_line_position = 0]
  ELSE IF letter = "\r" THEN st
  ELSE [st EXCEPT !.current_line = Append(@, letter),
                  !.current_line_position = @ + (IF letter = "\t" THEN 2 ELSE 1)]

\* one iteration of `for (index, letter) in self.contents.iter().enumerate()`
custom_error_step(st, letter) ==
  IF letter = "\n"
    THEN [st EXCEPT !.prev_line_bytes = SomeLine(st.current_line),
                    !.current_line = <<>>,
                    !.line_number = @ + 1,
                    !.current_line_position = 0]
  ELSE IF letter = "\r" THEN st
  ELSE [st EXCEPT !.current_line = Append(@, letter),
                  !.current_line_position = @ + (IF letter = "\t" THEN 2 ELSE 1)]

RECURSIVE custom_error_before(_, _, _)
custom_error_before(k, use, st) ==
  IF k > Len(contents) \/ k - 1 = use THEN st
  ELSE custom_error_before(k + 1, use, custom_error_step(st, contents[k]))

\* the second loop, over self.contents.iter().skip(use_index)
RECURSIVE custom_error_after(_, _)
custom_error_after(k, st) ==
  IF k > Len(contents) THEN st
  ELSE LET letter == contents[k] IN
    IF letter = "\n"
      THEN IF st.next_line_bytes.some THEN st
           ELSE custom_error_after(k + 1, [st EXCEPT !.next_line_bytes = SomeLine(<<>>)])
    ELSE IF letter = "\r" THEN custom_error_after(k + 1, st)
    ELSE IF st.next_line_bytes.some
      THEN custom_error_after(k + 1,
             [st EXCEPT !.next_line_bytes = SomeLine(Append(@.val, letter))])
      ELSE custom_error_after(k + 1, [st EXCEPT !.current_line = Append(@, letter)])

custom_error(error_type, use) ==
  LET a == custom_error_before(1, use,
             [line_number |-> 1, current_line_position |-> 1,
              prev_line_bytes |-> NoLine, current_line |-> <<>>])
      b == custom_error_after(use + 1,
             [next_line_bytes |-> NoLine, current_line |-> a.current_line])
  IN [y |-> a.line_number, x |-> a.current_line_position,
      error_type |-> error_type, prev_line |-> a.prev_line_bytes,
      line |-> b.current_line, next_line |-> b.next_line_bytes]

\* Parser::error: custom_error(error_type, None), use_index = self.index - 1
error(error_type, i) == custom_error(error_type, i - 1)

NoDiag ==
  [y |-> 0, x |-> 0, error_type |-> "None", prev_line |-> NoLine, line |-> <<>>,
   next_line |-> NoLine]

(***************************************************************************)
(* Parser::parse, parse_nothing, expect_next                               *)
(***************************************************************************)
expect_next(i, c) ==
  LET n == next_char(i) IN
  IF ~n.some THEN unexpected_eof(n.index)
  ELSE IF n.c = c THEN Ok(n.index, NoAction)
  ELSE unexpected_char(n.index)

\* ParseFunction::start, the function-signature parser, entered after `fn`:
\* it returns a Function and leaves the cursor further on, or it fails
ParseFunction_start_outcomes(i) ==
  {Ok(j, NoAction) : j \in i..Len(contents)}
    \cup {Err(j, e) : j \in i..Len(contents), e \in {"UnexpectedChar", "UnexpectedEOF"}}

(***************************************************************************)
(* The buffers the entry points are run on.                                *)
(***************************************************************************)
RECURSIVE Cat(_)
Cat(parts) == IF Len(parts) = 0 THEN <<>> ELSE Head(parts) \o Cat(Tail(parts))

Sp(k) == [j \in 1..k |-> " "]

Gaps0 == {Sp(k) : k \in 0..MaxGap - 1}

Gaps1 == {Sp(k) : k \in 1..MaxGap}

\* try_match: every buffer over MatchChars, every table over MatchOptions
MatchChars == {"f", "o", " "}

MatchOptions ==
  { Opt(<<"f">>, <<>>), Opt(<<"f", "o">>, <<" ">>), Opt(<<"f", "o">>, <<"o", "f">>),
    Opt(<<"f", "o", "o">>, <<>>), Opt(<<"o", "f">>, <<" ", "o">>), Opt(<<>>, <<" ">>) }

MatchBuffers == SeqsUpTo(MatchChars, MaxMatchLen)

MatchTables == SeqsUpTo(MatchOptions, MaxOptions)

\* custom_error: every buffer over ErrChars
ErrChars == {"a", "\t", "\r", "\n"}

ErrBuffers == SeqsUpTo(ErrChars, MaxErrLen)

\* statements
Idents == {<<"a">>, <<"b">>, <<"x">>, <<"f", "o", "o">>, <<"b", "a", "r">>, <<"i", "t", "e", "m">>, <<"i", "t", "e", "m", "s">>, <<"i", "n">>, <<"f", "o", "r", "m">>, <<"f", "n">>}

\* identifiers that continue a statement keyword
KeywordTails == {<<"m">>, <<"s", "1">>, <<"m", "a", "t", "i", "o", "n">>, <<"_">>}

KeywordLed == {DetectOptions[k].kw \o t : k \in 1..Len(DetectOptions), t \in KeywordTails}

StmtEnds == {<<>>, <<"\n">>, <<"\n", "}">>}

RefStmt(n, e) == n \o e

AssignStmt(n, g1, g2, m, e) == Cat(<<n, g1, <<"=">>, g2, m, e>>)

CallStmt(f, args, g, e) ==
  Cat(<<f, <<"(">>,
        IF Len(args) = 0 THEN <<>>
        ELSE IF Len(args) = 1 THEN args[1]
        ELSE Cat(<<args[1], <<",">>, g, args[2]>>),
        <<")">>, e>>)

ForHeader(n, g2, s) == Cat(<<n, g2, <<"i", "n">>, <<" ">>, s>>)

LoopStmt(kw, g1, header, g3, g4, e) ==
  Cat(<<kw, g1, header, g3, <<"{">>, g4, <<"}">>, e>>)

ForStmt(n, g2, s, g3, g4) == LoopStmt(Keywords_For, <<" ">>, ForHeader(n, g2, s), g3, g4, <<>>)

\* tokens other than `{` put between `loop` and its body
LoopSubjects == Idents \cup {<<"}">>, <<"(", ")">>, <<"1">>, <<"=">>}

\* bodies put between the braces of a `loop`
LoopBodies ==
  { <<"b", "r", "e", "a", "k", "\n">>, <<"a", "\n">>, <<"l", "o", "o", "p", "{", "}">>,
    <<"{">>, <<"f", "o", "o", "(", ")", "\n">> }

\* headers that are not `<name> in <expr>`
BadForHeaders ==
  { <<>>, <<" ", "i", "n", " ", "b">>, <<"i", "n", " ", "b">>,
    <<"a", " ", "b", " ", "c">>, <<"a", " ", "b">>, <<"a">>, <<"i", "t", "e", "m">>,
    <<"a", " ", "i", "n">>, <<"i", "t", "e", "m", " ", "i", "n">>,
    <<"a", " ", "i", "n", " ">>, <<"i", "t", "e", "m", " ", "i", "n", " ">> }

ReturnStmts ==
  {Cat(<<Keywords_Return, <<" ">>, n, <<" ", "}">>>>) : n \in Idents}
    \cup {Keywords_Return \o <<" ", "}">>, Keywords_Return \o <<"}">>}

VarStmts ==
  {Cat(<<k, <<" ">>, n, g, <<"=">>, g, m>>) :
     k \in {Keywords_Let, Keywords_Const}, n \in {<<"a">>, <<"f", "o", "o">>},
     g \in Gaps0, m \in {<<"b">>, <<"1">>, <<"\"", "h", "\\", "\"", "i", "\"">>}}
    \cup {Keywords_Let \o <<" ", "a">>, Keywords_Let \o <<" ", "a", " ", "b">>}

OtherStmts ==
  { Keywords_Break \o <<"\n">>, Keywords_Break \o <<"}">>, Keywords_Break,
    Keywords_Continue \o <<"\n">>, Keywords_Continue \o <<"}">>,
    <<"1", "2">>, <<"1", ".", "5", "\n">>, <<"\"", "a", "b", "\"">>, <<"\"", "a">>,
    <<"a", ".", "b", "\n">>, <<>>, <<"}">>, <<"a", "\"">>, <<"a", " ", "\"">> }

ParseInputs ==
  {RefStmt(n, e) : n \in Idents \cup KeywordLed, e \in StmtEnds \cup {<<" ", "}">>, <<"}">>}}
    \cup {AssignStmt(n, g1, g2, m, e) :
            n \in Idents, g1 \in Gaps0, g2 \in Gaps0, m \in Idents, e \in StmtEnds}
    \cup {AssignStmt(n, g, <<"=">> \o g, m, e) :
            n \in Idents, g \in Gaps0, m \in Idents, e \in StmtEnds}
    \cup {CallStmt(f, args, g, e) :
            f \in Idents, args \in SeqsUpTo({<<"a">>, <<"b">>, <<"f", "o", "o">>}, 2),
            g \in Gaps0, e \in StmtEnds \cup {<<"{">>}}
    \cup {CallStmt(f, <<CallStmt(<<"b">>, <<a>>, <<>>, <<>>)>>, <<>>, e) :
            f \in {<<"f", "o", "o">>}, a \in Idents, e \in StmtEnds}
    \cup {ForStmt(n, g2, s, g3, g4) :
            n \in Idents, g2 \in Gaps1, s \in Idents, g3 \in Gaps0, g4 \in Gaps0}
    \cup {LoopStmt(Keywords_For, g1, h, g3, <<>>, <<>>) :
            g1 \in Gaps1, h \in BadForHeaders, g3 \in Gaps0}
    \cup {LoopStmt(Keywords_Loop, g1, h, g3, g4, e) :
            g1 \in Gaps0 \cup {<<"\n">>}, h \in {<<>>} \cup LoopSubjects,
            g3 \in Gaps0, g4 \in Gaps0, e \in {<<>>, <<"\n">>}}
    \cup {LoopStmt(Keywords_Loop, <<" ">>, <<>>, <<>>, b, <<>>) :
            b \in LoopBodies}
    \cup {Keywords_Loop \o e : e \in {<<>>, <<" ">>, <<" ", "{">>}}
    \cup {LoopStmt(Keywords_While, g1, h, g3, <<>>, <<>>) :
            g1 \in Gaps1, h \in Idents \cup {<<"a", " ", "b", " ", "c">>, <<>>},
            g3 \in Gaps0}
    \cup ReturnStmts \cup VarStmts \cup OtherStmts

Contexts ==
  {ActionInBody, Assignment({}), Assignment({",", ")"}), Assignment({"{"}),
   Assignment({"}"})}

\* top-level sources holding a `let` declaration outside any function
GlobalLets ==
  {Cat(<<lead, Keywords_Let, <<" ">>, n, <<" ", "=", " ">>, v, rest>>) :
     lead \in {<<>>, <<"\n", " ">>},
     n \in {<<"x">>, <<"f", "o", "o">>, <<"b", "a", "r">>, <<"f", "n">>, <<"a", "f">>},
     v \in {<<"0">>, <<"x">>, <<"f", "n">>},
     rest \in {<<>>, <<"\n">>, <<"\n", "f", "n", " ", "m", "(", ")", "{", "}">>}}

(***************************************************************************)
(* Initial states: a Parser as Parser::parse constructs it (index 0, no    *)
(* functions) over one of the buffers; for try_match and custom_error the  *)
(* cursor may already stand anywhere in the buffer.                        *)
(***************************************************************************)
Idle ==
  /\ options = <<>>
  /\ matched = NoMatch
  /\ action_to_expect = ActionInBody
  /\ res = Ok(0, NoAction)
  /\ use_index = 0
  /\ diag = NoDiag
  /\ functions = 0

InitMatch ==
  /\ contents \in MatchBuffers
  /\ index \in 0..Len(contents)
  /\ start = index
  /\ pc = "try_match"
  /\ Idle!2 /\ Idle!3 /\ Idle!4 /\ Idle!5 /\ Idle!6 /\ Idle!7
  /\ options \in MatchTables

InitParse ==
  /\ contents \in {lead \o stmt : lead \in Gaps0, stmt \in ParseInputs}
  /\ index = 0
  /\ start = 0
  /\ pc = "statement"
  /\ Idle!1 /\ Idle!2 /\ Idle!4 /\ Idle!5 /\ Idle!6 /\ Idle!7
  /\ action_to_expect \in Contexts

InitError ==
  /\ contents \in ErrBuffers
  /\ index \in 1..Len(contents)
  /\ start = index
  /\ pc = "error"
  /\ Idle

InitProgram ==
  /\ contents \in GlobalLets
  /\ index = 0
  /\ start = 0
  /\ pc = "parse_nothing"
  /\ Idle

Init == InitMatch \/ InitParse \/ InitError \/ InitProgram

(***************************************************************************)
(* Actions                                                                 *)
(***************************************************************************)
\* Parser::try_match(options), called with the cursor at `start`
TryMatch ==
  /\ pc = "try_match"
  /\ LET r == try_match(index, options) IN
       /\ matched' = r.matched
       /\ index' = r.index
  /\ pc' = "matched"
  /\ UNCHANGED <<contents, start, options, action_to_expect, res, use_index, diag,
                 functions>>

\* the caller of ParseAction::start reads up to the first character of the
\* statement or value with next_while(" \t\n")
SkipBlank ==
  /\ pc = "statement"
  /\ LET n == next_while(index, Blank) IN
       /\ n.some
       /\ index' = n.index
       /\ start' = n.index - 1
  /\ pc' = "start"
  /\ UNCHANGED <<contents, options, matched, action_to_expect, res, use_index, diag,
                 functions>>

\* ParseAction::start(p, true, action_to_expect)
StartAction ==
  /\ pc = "start"
  /\ LET r == ParseAction_start(index, TRUE, action_to_expect) IN
       /\ res' = r
       /\ index' = r.index
       /\ diag' = IF r.ok THEN diag ELSE error(r.err, r.index)
  /\ pc' = "parsed"
  /\ UNCHANGED <<contents, start, options, matched, action_to_expect, use_index,
                 functions>>

\* Parser::custom_error(error_type, Some(file_char_number))
CustomErrorAt ==
  /\ pc = "error"
  /\ \E off \in 0..Len(contents) + 1 :
       /\ use_index' = off
       /\ diag' = custom_error("UnexpectedChar", off)
  /\ pc' = "reported"
  /\ UNCHANGED <<contents, index, start, options, matched, action_to_expect, res,
                 functions>>

\* Parser::error(error_type): custom_error(error_type, None)
ErrorHere ==
  /\ pc = "error"
  /\ use_index' = index - 1
  /\ diag' = error("UnexpectedEOF", index)
  /\ pc' = "reported"
  /\ UNCHANGED <<contents, index, start, options, matched, action_to_expect, res,
                 functions>>

\* one iteration of parse_nothing's loop, and its end; Parser::parse
\* returns what parse_nothing returns
ParseNothing ==
  /\ pc = "parse_nothing"
  /\ LET n == next_char(index) IN
       \/ /\ ~n.some
          /\ pc' = "parse_ok"
          /\ UNCHANGED <<index, res, diag, functions>>
       \/ /\ n.some /\ n.c # "f"
          /\ index' = n.index
          /\ UNCHANGED <<pc, res, diag, functions>>
       \/ /\ n.some /\ n.c = "f"
          /\ LET e == expect_next(n.index, "n") IN
               \/ /\ ~e.ok
                  /\ index' = e.index
                  /\ res' = e
                  /\ diag' = error(e.err, e.index)
                  /\ pc' = "parse_err"
                  /\ UNCHANGED functions
               \/ /\ e.ok
                  /\ \E new_func \in ParseFunction_start_outcomes(e.index) :
                       /\ index' = new_func.index
                       /\ IF new_func.ok
                            THEN /\ functions' = functions + 1
                                 /\ UNCHANGED <<pc, res, diag>>
                            ELSE /\ res' = new_func
                                 /\ diag' = error(new_func.err, new_func.index)
                                 /\ pc' = "parse_err"
                                 /\ UNCHANGED functions
  /\ UNCHANGED <<contents, start, options, matched, action_to_expect, use_index>>

NextMatch == TryMatch

NextParse == SkipBlank \/ StartAction

NextError == CustomErrorAt \/ ErrorHere

NextProgram == ParseNothing

Next == TryMatch \/ SkipBlank \/ StartAction \/ CustomErrorAt \/ ErrorHere \/ ParseNothing

Spec == Init /\ [][Next]_vars

SpecMatch == InitMatch /\ [][NextMatch]_vars

SpecParse == InitParse /\ [][NextParse]_vars

SpecError == InitError /\ [][NextError]_vars

SpecProgram == InitProgram /\ [][NextProgram]_vars

(***************************************************************************)
(* Properties                                                              *)
(***************************************************************************)
Min(a, b) == IF a < b THEN a ELSE b

MaxOf(S) == CHOOSE k \in S : \A j \in S : j <= k

\* the statement or value the cursor was put on
Stmt == SubSeq(contents, start + 1, Len(contents))

StartsWith(s, p) == Len(s) >= Len(p) /\ SubSeq(s, 1, Len(p)) = p

BlankEnds == {<<"\n">>, <<"\n", "}">>}

\* C1: whenever try_match returns no match, the cursor index after the call
\* equals the cursor index before the call.
C1_RewindExact == (pc = "matched" /\ matched = NoMatch) => index = start

\* the suffix sets the table lists for candidate kw
SuffixSetsOf(kw) ==
  {Range(options[k].surfix) : k \in {j \in 1..Len(options) : options[j].kw = kw}}

\* C2: when try_match returns candidate K from position p, the cursor is at
\* p + len(K), the bytes p..p+len(K) are K, and if K has a non-empty suffix
\* set the byte at the cursor exists and belongs to a suffix set of K (so it
\* was not consumed).
C2_MatchLeavesSuffix ==
  (pc = "matched" /\ matched # NoMatch) =>
    /\ index = start + Len(matched)
    /\ index <= Len(contents)
    /\ SubSeq(contents, start + 1, index) = matched
    /\ (\E S \in SuffixSetsOf(matched) : S # {}) =>
         /\ index < Len(contents)
         /\ \E S \in SuffixSetsOf(matched) : contents[index + 1] \in S

C2_Witness ==
  /\ pc = "matched" /\ matched # NoMatch /\ start > 0
  /\ Len(matched) > 1
  /\ \E S \in SuffixSetsOf(matched) : S # {}

\* C3: in ActionInBody context an identifier that continues a statement
\* keyword with a character outside the keyword's suffix set is parsed as a
\* plain reference whose name is the whole identifier.
C3_KeywordPrefixIsReference ==
  (pc = "parsed" /\ action_to_expect = ActionInBody) =>
    \A n \in KeywordLed, e \in BlankEnds :
      Stmt = RefStmt(n, e) => res.ok /\ res.val = VarRef(n)

\* C4: `foo = bar` at body level yields an Assignment of VarRef(bar) to foo.
C4_PlainAssignment ==
  (pc = "parsed" /\ action_to_expect = ActionInBody) =>
    \A n \in Idents, m \in Idents, e \in StmtEnds :
      Stmt = AssignStmt(n, <<" ">>, <<" ">>, m, e) =>
        res.ok /\ res.val = ActionAssigment(n, VarRef(m))

\* C5: `for N in S { }` yields a For action with item_name N, list
\* VarRef(S) and an empty body.
C5_ForShape ==
  (pc = "parsed" /\ action_to_expect = ActionInBody) =>
    \A n \in Idents, s \in Idents, g3 \in Gaps1, g4 \in Gaps0 :
      Stmt = ForStmt(n, <<" ">>, s, g3, g4) =>
        res.ok /\ res.val = ActionFor(<<>>, VarRef(s), n)

\* C6: a `for` whose header is not `<name> in <expr>` is rejected with a
\* ParsingError and produces no For action.
C6_BadForHeaderRejected ==
  (pc = "parsed" /\ action_to_expect = ActionInBody) =>
    \A g1 \in Gaps1, h \in BadForHeaders, g3 \in Gaps0 :
      Stmt = LoopStmt(Keywords_For, g1, h, g3, <<>>, <<>>) =>
        ~res.ok /\ res.val = NoAction /\ diag.error_type = res.err

CallArgs == {<<"a">>, <<"b">>, <<"f", "o", "o">>}

\* C7: `foo(a, b)` yields a FunctionCall named foo with the two arguments
\* VarRef(a), VarRef(b) in source order, the cursor just after the `)`.
C7_TwoArguments ==
  pc = "parsed" =>
    \A f \in Idents, a \in CallArgs, b \in CallArgs, g \in Gaps0, e \in StmtEnds :
      Stmt = CallStmt(f, <<a, b>>, g, e) =>
        /\ res.ok
        /\ res.val = ActionFunctionCall(f, <<VarRef(a), VarRef(b)>>)
        /\ index = start + Len(Stmt) - Len(e)

\* C7 where no keyword is tried: the same statement under a value context
\* (Assignment), which is where the arguments themselves are parsed.
C7_TwoArgumentsAsValue ==
  (pc = "parsed" /\ action_to_expect.kind = "Assignment") =>
    \A f \in Idents, a \in CallArgs, b \in CallArgs, g \in Gaps0, e \in StmtEnds :
      Stmt = CallStmt(f, <<a, b>>, g, e) =>
        /\ res.ok
        /\ res.val = ActionFunctionCall(f, <<VarRef(a), VarRef(b)>>)
        /\ index = start + Len(Stmt) - Len(e)

\* C8: Parser::parse returns a ParsingError for every input holding a `let`
\* declaration outside any function body.
C8_GlobalLetRejected == pc # "parse_ok"

\* C9: `loop`, blanks and a token other than `{` fail with a ParsingError and
\* yield no Loop action; `loop`, optional blanks and `{ body }` yield
\* Loop(body), body being what the statement-sequence parser makes of it.
C9_LoopSubject ==
  (pc = "parsed" /\ action_to_expect = ActionInBody /\ StartsWith(Stmt, Keywords_Loop)) =>
    /\ \A g1 \in Gaps1 \cup {<<"\n">>}, h \in LoopSubjects, g3 \in Gaps0,
          g4 \in Gaps0, e \in {<<>>, <<"\n">>} :
         Stmt = LoopStmt(Keywords_Loop, g1, h, g3, g4, e) =>
           /\ ~res.ok /\ res.val = NoAction
           /\ res.err \in {"UnexpectedChar", "UnexpectedEOF"}
           /\ diag.error_type = res.err
    /\ \A g1 \in Gaps0 \cup {<<"\n">>}, g4 \in Gaps0, e \in {<<>>, <<"\n">>} :
         Stmt = LoopStmt(Keywords_Loop, g1, <<>>, <<>>, g4, e) =>
           /\ res.ok /\ res.val = ActionLoop(<<>>)
           /\ index = start + Len(Stmt) - Len(e)
    /\ Stmt = LoopStmt(Keywords_Loop, <<" ">>, <<>>, <<>>,
                       <<"b", "r", "e", "a", "k", "\n">>, <<>>) =>
         res.ok /\ res.val = ActionLoop(<<ActionBreak>>)
    /\ \A b \in LoopBodies :
         Stmt = LoopStmt(Keywords_Loop, <<" ">>, <<>>, <<>>, b, <<>>) =>
           LET body == ParseActions_start(start + Len(Keywords_Loop) + 2)
           IN /\ res.ok = body.ok
              /\ res.ok => res.val = ActionLoop(body.val)

C9_Witness ==
  /\ pc = "parsed" /\ action_to_expect = ActionInBody
  /\ Stmt = LoopStmt(Keywords_Loop, <<" ">>, <<"f", "o", "o">>, <<" ">>, <<>>, <<>>)
  /\ ~res.ok

StripCR(s) == SelectSeq(s, LAMBDA c : c # "\r")

\* the newlines before the offset
NewlinesBefore(off) == {k \in 1..Min(off, Len(contents)) : contents[k] = "\n"}

\* the source line that ends at the newline at position nl
LineEndingAt(nl) ==
  LET earlier == {k \in 1..(nl - 1) : contents[k] = "\n"}
      from == IF earlier = {} THEN 1 ELSE MaxOf(earlier) + 1
  IN SubSeq(contents, from, nl - 1)

\* C10: the diagnostic's line number is 1 plus the number of newlines before
\* the offset; on line 2 or later the previous line is the whole preceding
\* source line without its carriage returns; on line 1 it is absent.
C10_LineAndPreviousLine ==
  pc = "reported" =>
    /\ diag.y = 1 + Cardinality(NewlinesBefore(use_index))
    /\ IF NewlinesBefore(use_index) = {}
         THEN diag.prev_line = NoLine
         ELSE diag.prev_line =
                SomeLine(StripCR(LineEndingAt(MaxOf(NewlinesBefore(use_index)))))

C10_Witness ==
  /\ pc = "reported" /\ diag.y = 2
  /\ diag.prev_line.some /\ Len(diag.prev_line.val) > 0
  /\ "\r" \in Range(LineEndingAt(MaxOf(NewlinesBefore(use_index))))

\* the eight statement keywords
StatementKeywords ==
  {Keywords_Const, Keywords_Let, Keywords_Return, Keywords_Loop, Keywords_While,
   Keywords_For, Keywords_Break, Keywords_Continue}

\* the keywords of the table detect offers to try_match
OfferedKeywords == {DetectOptions[k].kw : k \in 1..Len(DetectOptions)}

\* the characters that may follow `break` and `continue`
LeafSuffix == {"}", " ", "\t", "\n"}

\* the statement is keyword kw followed by one of its legal suffix characters
LeafStatement(kw) ==
  /\ StartsWith(Stmt, kw)
  /\ Len(Stmt) > Len(kw)
  /\ Stmt[Len(kw) + 1] \in LeafSuffix

\* C11: in ActionInBody context the table offered to try_match holds all
\* eight statement keywords, and a statement `break` or `continue` followed
\* by a legal suffix character yields Action::Break, Action::Continue
\* respectively, never a variable reference.
C11_BreakContinueDispatched ==
  (pc = "parsed" /\ action_to_expect = ActionInBody) =>
    /\ LeafStatement(Keywords_Break) =>
         /\ OfferedKeywords = StatementKeywords
         /\ res.ok /\ res.val = ActionBreak
    /\ LeafStatement(Keywords_Continue) =>
         /\ OfferedKeywords = StatementKeywords
         /\ res.ok /\ res.val = ActionContinue

\* the part of C11 the code keeps: `break` before a legal suffix character
\* is dispatched to Action::Break with the suffix left unread
C11_BreakDispatched ==
  (pc = "parsed" /\ action_to_expect = ActionInBody /\ LeafStatement(Keywords_Break)) =>
    /\ res.ok /\ res.val = ActionBreak
    /\ index = start + Len(Keywords_Break)

\* the statement is a name (legal name characters and dots) followed by
\* nothing but blanks up to the end of the buffer
RECURSIVE NameThenBlanks(_, _)
NameThenBlanks(s, in_name) ==
  IF Len(s) = 0 THEN TRUE
  ELSE IF Head(s) \in Blank THEN NameThenBlanks(Tail(s), FALSE)
  ELSE IF (legal_name_char(Head(s)) \/ Head(s) = ".") /\ in_name
    THEN NameThenBlanks(Tail(s), TRUE)
  ELSE FALSE

\* some keyword of the table stands at the start of the statement before
\* one of its suffix characters, so that detect does not scan
KeywordLeads ==
  \E k \in 1..Len(DetectOptions) :
    /\ StartsWith(Stmt, DetectOptions[k].kw)
    /\ Len(Stmt) > Len(DetectOptions[k].kw)
    /\ Stmt[Len(DetectOptions[k].kw) + 1] \in Range(DetectOptions[k].surfix)

\* the generic scan runs and meets the end of the buffer before `(`, `=`, a
\* terminator of the context or a character after a completed name
ScanMeetsEOF ==
  /\ NameThenBlanks(Stmt, TRUE)
  /\ action_to_expect = ActionInBody => ~KeywordLeads

\* C12: when the generic scan of detect reaches end-of-input before it has
\* seen a terminating character, detect fails and commits no action (no
\* VarRef built from the partial or empty name).
C12_ScanEOFIsError ==
  (pc = "parsed" /\ ScanMeetsEOF) => (~res.ok /\ res.val = NoAction)

\* the start of the line the offset lies on
LineStart(off) ==
  IF NewlinesBefore(off) = {} THEN 1 ELSE MaxOf(NewlinesBefore(off)) + 1

\* the characters between the start of the offset's line and the offset
LinePrefix(off) == SubSeq(contents, LineStart(off), Min(off, Len(contents)))

\* 1 per character, 2 per tab, nothing for a carriage return
RECURSIVE Width(_)
Width(s) ==
  IF Len(s) = 0 THEN 0
  ELSE (IF Head(s) = "\r" THEN 0 ELSE IF Head(s) = "\t" THEN 2 ELSE 1) + Width(Tail(s))

\* C13: the reported column depends only on the characters between the
\* start of the offset's line and the offset: counted afresh (from 0) on each
\* line, 1 per character, 2 per tab, nothing per carriage return, the same
\* on the first line of the buffer as on any later line.
C13_ColumnOfLinePrefix ==
  pc = "reported" => diag.x = Width(LinePrefix(use_index))

\* what the code reports: the count starts at 1 on the first line of the
\* buffer and at 0 on every later line
C13_ColumnByLine ==
  pc = "reported" =>
    diag.x = Width(LinePrefix(use_index)) + (IF NewlinesBefore(use_index) = {} THEN 1 ELSE 0)

=============================================================================
